---- MODULE Spec2Model ----
(***************************************************************************)
(* Fleet Card Generator wizard (yaml_generator.py).                        *)
(*                                                                         *)
(* Text is modelled as a sequence of pieces whose concatenation is the     *)
(* string.  Text typed at a prompt and the defaults carry one character    *)
(* per piece, so the validators can inspect it character by character;     *)
(* the literal fragments of the document templates are one piece each.     *)
(* A float is modelled by its value in tenths (30.0 is 300).               *)
(***************************************************************************)
EXTENDS Integers, Sequences, FiniteSets, TLC

(***************************************************************************)
(* Bounds of the model.                                                    *)
(***************************************************************************)
\* vehicles entered in one session
MaxVehicles == 2
\* consecutive rejected inputs at one prompt
MaxRejects == 2
\* length of the strings given to validate_entity
MaxEntityLen == 5
\* free characters on each side of the body of a VIN input
MaxPad == 2

(***************************************************************************)
(* Characters and the str methods the validators use.                      *)
(***************************************************************************)
LowerLetters ==
  <<"a","b","c","d","e","f","g","h","i","j","k","l","m",
    "n","o","p","q","r","s","t","u","v","w","x","y","z">>

UpperLetters ==
  <<"A","B","C","D","E","F","G","H","I","J","K","L","M",
    "N","O","P","Q","R","S","T","U","V","W","X","Y","Z">>

Digits == <<"0","1","2","3","4","5","6","7","8","9">>

Range(s) == {s[i] : i \in 1..Len(s)}

IndexOf(c, s) == CHOOSE i \in 1..Len(s) : s[i] = c

IsSpace(c) == c = " "

IsDigit(c) == c \in Range(Digits)

\* str.isalnum on one character; the sharp s is a letter
IsAlnumChar(c) ==
  c \in Range(LowerLetters) \cup Range(UpperLetters) \cup Range(Digits) \cup {"ß"}

\* str.upper on one character; the sharp s upper-cases to two characters
UpperChar(c) ==
  IF c \in Range(LowerLetters) THEN <<UpperLetters[IndexOf(c, LowerLetters)]>>
  ELSE IF c = "ß" THEN <<"S", "S">>
  ELSE <<c>>

LowerChar(c) ==
  IF c \in Range(UpperLetters) THEN <<LowerLetters[IndexOf(c, UpperLetters)]>>
  ELSE <<c>>

RECURSIVE Upper(_)
Upper(s) == IF s = <<>> THEN <<>> ELSE UpperChar(Head(s)) \o Upper(Tail(s))

RECURSIVE Lower(_)
Lower(s) == IF s = <<>> THEN <<>> ELSE LowerChar(Head(s)) \o Lower(Tail(s))

RECURSIVE LStrip(_)
LStrip(s) ==
  IF s = <<>> THEN <<>>
  ELSE IF IsSpace(Head(s)) THEN LStrip(Tail(s)) ELSE s

RECURSIVE RStrip(_)
RStrip(s) ==
  IF s = <<>> THEN <<>>
  ELSE IF IsSpace(s[Len(s)]) THEN RStrip(SubSeq(s, 1, Len(s) - 1)) ELSE s

Strip(s) == RStrip(LStrip(s))

\* str.isalnum: at least one character and all of them alphanumeric
IsAlnum(s) == s # <<>> /\ \A i \in 1..Len(s) : IsAlnumChar(s[i])

\* str.isdigit, on the ASCII digits
IsDigitStr(s) == s # <<>> /\ \A i \in 1..Len(s) : IsDigit(s[i])

\* position of the first occurrence of character c in s, 0 when absent
Find(c, s) ==
  IF c \in Range(s) THEN CHOOSE i \in 1..Len(s) : s[i] = c /\ \A j \in 1..(i - 1) : s[j] # c
  ELSE 0

Count(c, s) == Cardinality({i \in 1..Len(s) : s[i] = c})

\* int() of a string of ASCII digits
RECURSIVE ParseInt(_)
ParseInt(s) ==
  IF s = <<>> THEN 0
  ELSE 10 * ParseInt(SubSeq(s, 1, Len(s) - 1)) + (IndexOf(s[Len(s)], Digits) - 1)

\* str() of a natural number
RECURSIVE IntStr(_)
IntStr(n) ==
  IF n < 10 THEN <<Digits[n + 1]>> ELSE IntStr(n \div 10) \o <<Digits[(n % 10) + 1]>>

\* a float, held in tenths
Float(t) == [tenths |-> t]

\* str() of a float: Float(300) is "30.0"
FloatStr(f) == IntStr(f.tenths \div 10) \o <<".">> \o IntStr(f.tenths % 10)

StartsWith(s, p) == Len(s) >= Len(p) /\ SubSeq(s, 1, Len(p)) = p

(***************************************************************************)
(* The validators.  Each returns [ok, value]; ok = FALSE stands for the    *)
(* ValueError the validator raises, and value then holds its message.      *)
(***************************************************************************)
Accept(v) == [ok |-> TRUE, value |-> v]

Reject(msg) == [ok |-> FALSE, value |-> msg]

validate_year(year_str) ==
  IF ~IsDigitStr(year_str) \/ Len(year_str) # 4
  THEN Reject("Year must be a 4-digit number.")
  ELSE LET year == ParseInt(year_str) IN
       IF year < 1886 \/ year > 2100
       THEN Reject("Year must be between 1886 and 2100.")
       ELSE Accept(year)

validate_non_empty(input_str) ==
  IF Strip(input_str) = <<>>
  THEN Reject("This field cannot be empty.")
  ELSE Accept(Strip(input_str))

VinLen == 17

\* validate_vin without the strip()
validate_vin_no_strip(raw_str) ==
  LET vin_str == Upper(raw_str) IN
  IF Len(vin_str) # VinLen
  THEN Reject("VIN must be exactly 17 characters long.")
  ELSE IF ~IsAlnum(vin_str)
  THEN Reject("VIN must be alphanumeric.")
  ELSE Accept(vin_str)

validate_vin(raw_str) ==
  LET vin_str == Upper(Strip(raw_str)) IN
  IF Len(vin_str) # VinLen
  THEN Reject("VIN must be exactly 17 characters long.")
  ELSE IF ~IsAlnum(vin_str)
  THEN Reject("VIN must be alphanumeric.")
  ELSE Accept(vin_str)

validate_license_plate(raw_str) ==
  LET plate_str == Upper(Strip(raw_str)) IN
  IF plate_str = <<>>
  THEN Reject("License plate cannot be empty.")
  ELSE Accept(plate_str)

\* float() on the decimal notation: optional surrounding blanks, digits with
\* at most one point and at most one digit after it, at least one digit.
validate_float(float_str) ==
  LET s == Strip(float_str)
      p == Find(".", s)
      whole == IF p = 0 THEN s ELSE SubSeq(s, 1, p - 1)
      frac == IF p = 0 THEN <<>> ELSE SubSeq(s, p + 1, Len(s))
      digitsOnly(t) == \A i \in 1..Len(t) : IsDigit(t[i])
  IN IF digitsOnly(whole) /\ digitsOnly(frac) /\ Len(whole) + Len(frac) > 0
        /\ Len(frac) <= 1
     THEN Accept(Float(10 * ParseInt(whole) + ParseInt(frac)))
     ELSE Reject("Input must be a numeric value.")

validate_entity(raw_str) ==
  LET entity_str == Lower(Strip(raw_str))
      p == Find(".", entity_str)
  IN IF p = 0
     THEN Reject("Entity must be in the format 'domain.entity_id', e.g., 'sensor.name'.")
     ELSE LET domain == SubSeq(entity_str, 1, p - 1)
              entity_id == SubSeq(entity_str, p + 1, Len(entity_str))
          IN IF domain = <<>> \/ entity_id = <<>>
             THEN Reject("Entity must have both domain and entity_id.")
             ELSE Accept(entity_str)

\* ^(https?|ftp)://(\S+)$
validate_url(url_str) ==
  LET schemes == {<<"h","t","t","p",":","/","/">>,
                  <<"h","t","t","p","s",":","/","/">>,
                  <<"f","t","p",":","/","/">>}
  IN IF \E p \in schemes :
          /\ StartsWith(url_str, p)
          /\ Len(url_str) > Len(p)
          /\ \A i \in (Len(p) + 1)..Len(url_str) : ~IsSpace(url_str[i])
     THEN Accept(url_str)
     ELSE Reject("Invalid URL format.")

(***************************************************************************)
(* The document builder.                                                   *)
(***************************************************************************)
TirePositions == <<"front_left", "front_right", "rear_left", "rear_right">>

fuel_indicator(fuel_entity) ==
  [icon |-> <<"mdi:fuel">>,
   entity |-> fuel_entity,
   threshold |-> 15,
   state_icon |-> <<"mdi:fuel-empty">>,
   title |-> <<"Low Fuel">>,
   severity |-> <<"medium">>,
   state_template |->
     <<"{{ 'LOW' if states('">> \o fuel_entity \o <<"') < 15 else 'NORMAL' }}">>,
   color_template |->
     <<"{{ 'yellow' if states('">> \o fuel_entity \o <<"') < 15 else 'green' }}">>]

tire_indicator(entity, tire_min, title) ==
  [icon |-> <<"mdi:tire">>,
   entity |-> entity,
   threshold |-> tire_min,
   state_icon |-> <<"mdi:tire-alert">>,
   title |-> title,
   severity |-> <<"high">>,
   state_template |->
     <<"{{ 'LOW' if states('">> \o entity \o <<"') < ">> \o FloatStr(tire_min)
       \o <<" else 'NORMAL' }}">>,
   color_template |->
     <<"{{ 'red' if states('">> \o entity \o <<"') < ">> \o FloatStr(tire_min)
       \o <<" else 'green' }}">>]

\* indicators with the rear-left block left reading the front-left sensor
indicators_copied_block(fuel_entity, tire_entities, tire_min) ==
  << fuel_indicator(fuel_entity),
     tire_indicator(tire_entities["front_left"], tire_min, <<"Low Tire Pressure Front Left">>),
     tire_indicator(tire_entities["front_right"], tire_min, <<"Low Tire Pressure Front Right">>),
     tire_indicator(tire_entities["front_left"], tire_min, <<"Low Tire Pressure Rear Left">>),
     tire_indicator(tire_entities["rear_right"], tire_min, <<"Low Tire Pressure Rear Right">>) >>

indicators(fuel_entity, tire_entities, tire_min) ==
  << fuel_indicator(fuel_entity),
     tire_indicator(tire_entities["front_left"], tire_min, <<"Low Tire Pressure Front Left">>),
     tire_indicator(tire_entities["front_right"], tire_min, <<"Low Tire Pressure Front Right">>),
     tire_indicator(tire_entities["rear_left"], tire_min, <<"Low Tire Pressure Rear Left">>),
     tire_indicator(tire_entities["rear_right"], tire_min, <<"Low Tire Pressure Rear Right">>) >>

\* f"{year}_{make.lower()}_{model.lower()}_{license_plate.lower()}"
Slug(year, make, model, license_plate) ==
  IntStr(year) \o <<"_">> \o Lower(make) \o <<"_">> \o Lower(model)
    \o <<"_">> \o Lower(license_plate)

actions(year, make, model, license_plate) ==
  << [name |-> <<"Toggle Lock">>,
      icon |-> <<"mdi:lock">>,
      service |-> <<"lock.toggle">>,
      service_data |->
        [entity_id |-> <<"lock.">> \o Slug(year, make, model, license_plate)
                         \o <<"_door_locks">>]] >>

range_entry(entity) ==
  [current |-> <<"{{ states('">> \o entity \o <<"') }}">>,
   max |-> 100,
   color_template |->
     <<"{{ 'green' if states('">> \o entity \o <<"') > 50 else 'yellow' if states('">>
       \o entity \o <<"') > 20 else 'red' }}">>]

\* generate_vehicle_yaml with the tire thresholds taken from tire_max
generate_vehicle_yaml_tire_max(make, model, year, license_plate, vin, color, tire_min, tire_max, fuel_entity, tire_entities, battery_entity, ignition_entity, trouble_entity, odometer_entity, photo_url) ==
  LET card_name == IntStr(year) \o <<" ">> \o make \o <<" ">> \o model
                     \o <<" ">> \o license_plate
  IN [type |-> <<"custom:vehicle-status-card">>,
      name |-> card_name,
      entity |-> <<"sensor.vehicle_status">>,
      image |-> photo_url,
      make |-> make,
      model |-> model,
      year |-> year,
      vin |-> vin,
      license_plate |-> license_plate,
      color |-> color,
      indicators |-> indicators(fuel_entity, tire_entities, tire_max),
      actions |-> actions(year, make, model, license_plate),
      range_info |-> [fuel_level |-> range_entry(fuel_entity),
                      battery |-> range_entry(battery_entity)],
      custom_images |-> [tire_image |-> <<"/local/vehicle_images/tire_normal.jpg">>,
                         tire_low_image |-> <<"/local/vehicle_images/tire_low.jpg">>],
      vehicle_info |-> [VIN |-> <<"VIN: ">> \o vin,
                        LicensePlate |-> <<"License Plate: ">> \o license_plate,
                        Color |-> color]]

generate_vehicle_yaml(make, model, year, license_plate, vin, color, tire_min, tire_max, fuel_entity, tire_entities, battery_entity, ignition_entity, trouble_entity, odometer_entity, photo_url) ==
  LET card_name == IntStr(year) \o <<" ">> \o make \o <<" ">> \o model
                     \o <<" ">> \o license_plate
  IN [type |-> <<"custom:vehicle-status-card">>,
      name |-> card_name,
      entity |-> <<"sensor.vehicle_status">>,
      image |-> photo_url,
      make |-> make,
      model |-> model,
      year |-> year,
      vin |-> vin,
      license_plate |-> license_plate,
      color |-> color,
      indicators |-> indicators(fuel_entity, tire_entities, tire_min),
      actions |-> actions(year, make, model, license_plate),
      range_info |-> [fuel_level |-> range_entry(fuel_entity),
                      battery |-> range_entry(battery_entity)],
      custom_images |-> [tire_image |-> <<"/local/vehicle_images/tire_normal.jpg">>,
                         tire_low_image |-> <<"/local/vehicle_images/tire_low.jpg">>],
      vehicle_info |-> [VIN |-> <<"VIN: ">> \o vin,
                        LicensePlate |-> <<"License Plate: ">> \o license_plate,
                        Color |-> color]]

\* f"{year}_{make.lower()}_{model.lower()}_{license_plate.lower()}.yaml"
FileName(year, make, model, license_plate) ==
  Slug(year, make, model, license_plate) \o <<".yaml">>

(***************************************************************************)
(* The prompts of run_wizard: field, validator and default of each call of *)
(* input_with_validation, in the order of the calls.                       *)
(***************************************************************************)
\* the prompts in the order of the data model: identity with make first,
\* the five sensors, then the tire positions
PromptOrderDataModel ==
  <<"make", "model", "year", "vin", "license_plate", "color",
    "tire_min", "tire_max",
    "fuel_entity", "battery_entity", "ignition_entity", "trouble_entity",
    "odometer_entity",
    "front_left", "front_right", "rear_left", "rear_right",
    "photo_url">>

PromptOrder ==
  <<"year", "make", "model", "vin", "license_plate", "color",
    "tire_min", "tire_max",
    "fuel_entity", "front_left", "front_right", "rear_left", "rear_right",
    "battery_entity", "ignition_entity", "trouble_entity", "odometer_entity",
    "photo_url">>

Fields == Range(PromptOrder)

EntityFields ==
  {"fuel_entity", "front_left", "front_right", "rear_left", "rear_right",
   "battery_entity", "ignition_entity", "trouble_entity", "odometer_entity"}

Validator(f, s) ==
  CASE f = "year" -> validate_year(s)
    [] f \in {"make", "model", "color"} -> validate_non_empty(s)
    [] f = "vin" -> validate_vin(s)
    [] f = "license_plate" -> validate_license_plate(s)
    [] f \in {"tire_min", "tire_max"} -> validate_float(s)
    [] f \in EntityFields -> validate_entity(s)
    [] f = "photo_url" -> validate_url(s)

DefaultPhotoUrl ==
  <<"h","t","t","p","s",":","/","/","e","x","a","m","p","l","e",".","c","o","m","/","d","e","f","a","u","l","t","_","c","a","r",".","j","p","g">>

\* the default= argument of the call; has = FALSE is default=None
Default(f) ==
  CASE f = "color" -> [has |-> TRUE, value |-> <<"B","l","u","e">>]
    [] f = "tire_min" -> [has |-> TRUE, value |-> Float(300)]
    [] f = "tire_max" -> [has |-> TRUE, value |-> Float(380)]
    [] f = "photo_url" -> [has |-> TRUE, value |-> DefaultPhotoUrl]
    [] OTHER -> [has |-> FALSE, value |-> <<>>]

\* input_with_validation falling back to the default after a ValueError
input_with_validation_fallback(f, user_input) ==
  IF user_input = <<>> /\ Default(f).has
  THEN [outcome |-> "return", value |-> Default(f).value, called |-> FALSE]
  ELSE LET r == Validator(f, user_input) IN
       IF r.ok
       THEN [outcome |-> "return", value |-> r.value, called |-> TRUE]
       ELSE IF Default(f).has
       THEN [outcome |-> "return", value |-> Default(f).value, called |-> TRUE]
       ELSE [outcome |-> "retry", value |-> r.value, called |-> TRUE]

\* input_with_validation with an except clause that does not catch ValueError
input_with_validation_uncaught(f, user_input) ==
  IF user_input = <<>> /\ Default(f).has
  THEN [outcome |-> "return", value |-> Default(f).value, called |-> FALSE]
  ELSE LET r == Validator(f, user_input) IN
       IF r.ok
       THEN [outcome |-> "return", value |-> r.value, called |-> TRUE]
       ELSE [outcome |-> "raise", value |-> r.value, called |-> TRUE]

\* input_with_validation testing the stripped line for emptiness
input_with_validation_blank(f, user_input) ==
  IF Strip(user_input) = <<>> /\ Default(f).has
  THEN [outcome |-> "return", value |-> Default(f).value, called |-> FALSE]
  ELSE LET r == Validator(f, user_input) IN
       IF r.ok
       THEN [outcome |-> "return", value |-> r.value, called |-> TRUE]
       ELSE [outcome |-> "retry", value |-> r.value, called |-> TRUE]

\* One pass of the loop of input_with_validation on one line of input:
\* "return" with the value, "retry" after a caught ValueError ("raise" would
\* be an exception leaving the loop).  called tells whether validation_func
\* was invoked.
input_with_validation(f, user_input) ==
  IF user_input = <<>> /\ Default(f).has
  THEN [outcome |-> "return", value |-> Default(f).value, called |-> FALSE]
  ELSE LET r == Validator(f, user_input) IN
       IF r.ok
       THEN [outcome |-> "return", value |-> r.value, called |-> TRUE]
       ELSE [outcome |-> "retry", value |-> r.value, called |-> TRUE]

\* a write whose failure is swallowed
AfterWrite_swallowed(ok) == "review"

\* where run_wizard goes after the open/dump of the file: an exception of
\* the write is not caught
AfterWrite(ok) == IF ok THEN "review" ELSE "crashed"

\* input(...).strip().lower()
Normalise(resp) == Lower(Strip(resp))

\* the loop left only on "n"
AfterContinue_only_n(resp) == IF Normalise(resp) = <<"n">> THEN "done" ELSE "collect"

\* where run_wizard goes after the answer to "add another vehicle?"
AfterContinue(resp) == IF Normalise(resp) # <<"y">> THEN "done" ELSE "collect"

(***************************************************************************)
(* The lines typed at the prompts of the wizard.                           *)
(***************************************************************************)
WizardInputs(f) ==
  CASE f = "year" -> {<<"2","0","2","4">>, <<"1","8","8","5">>, <<"2","4">>, <<>>}
    [] f = "make" -> {<<" ","K","i","a">>, <<"V","W">>, <<" ">>}
    [] f = "model" -> {<<"E","V","6">>, <<>>}
    [] f = "vin" -> {<<" ","1","h","g","c","m","8","2","6","3","3","a","0","0","4","3","5","2">>, <<"1","H","G">>}
    [] f = "license_plate" -> {<<"x","y","z","-","1","2","3">>, <<" ">>}
    [] f = "color" -> {<<>>, <<"R","e","d">>, <<" ">>}
    [] f = "tire_min" -> {<<>>, <<"3","2",".","5">>, <<"x">>}
    [] f = "tire_max" -> {<<>>, <<"4","0">>, <<" ">>}
    [] f = "fuel_entity" -> {<<"S","e","n","s","o","r",".","F","u","e","l">>, <<"s","e","n","s","o","r","f","u","e","l">>}
    [] f = "front_left" -> {<<"s",".","f","l">>, <<>>}
    [] f = "front_right" -> {<<"s",".","f","r">>, <<".","f","r">>}
    [] f = "rear_left" -> {<<"s",".","r","l">>, <<"s",".">>}
    [] f = "rear_right" -> {<<" ","s",".","r","r">>, <<" ">>}
    [] f = "battery_entity" -> {<<"s",".","b","a","t">>, <<"b","a","t">>}
    [] f = "ignition_entity" -> {<<"b",".","i","g","n">>, <<"b",".","o","n">>, <<".">>}
    [] f = "trouble_entity" -> {<<"B",".","T">>, <<>>}
    [] f = "odometer_entity" -> {<<"s",".","o","d","o">>, <<"s",".","k","m">>, <<"o","d","o">>}
    [] f = "photo_url" -> {<<>>, <<"f","t","p",":","/","/","p">>, <<"h","t","t","p",":","/","/"," ","x">>}

\* the answers typed at the two y/n prompts
Responses == {<<"y">>, <<" ","Y"," ">>, <<"n">>, <<>>, <<"y","e","s">>}

(***************************************************************************)
(* State.                                                                  *)
(*   pc           where run_wizard stands: "collect", "persist", "review", *)
(*                "cont", "done" (after the break) or "crashed" (an        *)
(*                exception left run_wizard)                               *)
(*   idx          the prompt of PromptOrder the wizard is at               *)
(*   rec          the values returned by input_with_validation in this     *)
(*                iteration, by field                                      *)
(*   inputs       the last line typed for each field in this iteration     *)
(*   lastPrompt   the field most recently prompted in this iteration       *)
(*   lastOutcome  how the most recent pass of the prompting loop ended     *)
(*   called       whether that pass invoked the validator                  *)
(*   rejects      consecutive rejected lines at the current prompt         *)
(*   vehicle_yaml the document built in this iteration                     *)
(*   fs           the files written, by name                               *)
(*   vehicles     iterations of the entry loop started                     *)
(*   event        the input or output of the most recent step              *)
(*   answer       the line typed at the y/n prompt of the most recent step *)
(*   raw, result, fn   argument, result and name of a validator applied    *)
(*                on its own                                               *)
(***************************************************************************)
VARIABLES pc, idx, rec, inputs, lastPrompt, lastOutcome, called, rejects,
          vehicle_yaml, fs, vehicles, event, answer, raw, result, fn

vars == <<pc, idx, rec, inputs, lastPrompt, lastOutcome, called, rejects,
          vehicle_yaml, fs, vehicles, event, answer, raw, result, fn>>

wizardVars == <<pc, idx, rec, inputs, lastPrompt, lastOutcome, called, rejects,
                vehicle_yaml, fs, vehicles, event, answer>>

InitWizard ==
  /\ pc = "collect"
  /\ idx = 1
  /\ rec = <<>>
  /\ inputs = <<>>
  /\ lastPrompt = "none"
  /\ lastOutcome = "none"
  /\ called = FALSE
  /\ rejects = 0
  /\ vehicle_yaml = <<>>
  /\ fs = <<>>
  /\ vehicles = 1
  /\ event = "none"
  /\ answer = <<>>

Init ==
  /\ InitWizard
  /\ raw = <<>>
  /\ result = <<>>
  /\ fn = "none"

\* One line typed at the prompt of the current field: one pass of the loop of
\* input_with_validation, and the return into run_wizard when it returns.
Prompt ==
  /\ pc = "collect"
  /\ \E user_input \in WizardInputs(PromptOrder[idx]) :
       LET f == PromptOrder[idx]
           r == input_with_validation(f, user_input)
       IN /\ lastPrompt' = f
          /\ inputs' = (f :> user_input) @@ inputs
          /\ called' = r.called
          /\ event' = "prompt"
          /\ answer' = <<>>
          /\ lastOutcome' = r.outcome
          /\ CASE r.outcome = "return" ->
                    /\ rec' = (f :> r.value) @@ rec
                    /\ rejects' = 0
                    /\ IF idx = Len(PromptOrder)
                       THEN pc' = "persist" /\ idx' = idx
                       ELSE pc' = "collect" /\ idx' = idx + 1
               [] r.outcome = "retry" ->
                    /\ rejects < MaxRejects
                    /\ rejects' = rejects + 1
                    /\ UNCHANGED <<rec, pc, idx>>
               [] OTHER ->
                    /\ pc' = "crashed"
                    /\ UNCHANGED <<rec, rejects, idx>>
  /\ UNCHANGED <<vehicle_yaml, fs, vehicles, raw, result, fn>>

BuiltDocument ==
  generate_vehicle_yaml(rec["make"], rec["model"], rec["year"], rec["license_plate"],
                        rec["vin"], rec["color"], rec["tire_min"], rec["tire_max"],
                        rec["fuel_entity"],
                        [p \in Range(TirePositions) |-> rec[p]],
                        rec["battery_entity"], rec["ignition_entity"],
                        rec["trouble_entity"], rec["odometer_entity"], rec["photo_url"])

BuiltFileName ==
  FileName(rec["year"], rec["make"], rec["model"], rec["license_plate"])

\* Step 5: build the document, open the file for writing and dump it.  The
\* write succeeds, or fails at open (the file system is left as it was) or
\* during the dump (the file is left truncated).
Persist ==
  /\ pc = "persist"
  /\ \E ok \in BOOLEAN, opened \in BOOLEAN :
       /\ ok => opened
       /\ vehicle_yaml' = BuiltDocument
       /\ fs' = IF ok THEN (BuiltFileName :> [complete |-> TRUE, doc |-> BuiltDocument]) @@ fs
                ELSE IF opened THEN (BuiltFileName :> [complete |-> FALSE, doc |-> <<>>]) @@ fs
                ELSE fs
       /\ event' = IF ok THEN "write" ELSE "write_failed"
       /\ pc' = AfterWrite(ok)
  /\ answer' = <<>>
  /\ UNCHANGED <<idx, rec, inputs, lastPrompt, lastOutcome, called, rejects,
                 vehicles, raw, result, fn>>

\* The review prompt, and the read-back of the file on "y".
Review ==
  /\ pc = "review"
  /\ \E resp \in Responses, readOk \in BOOLEAN :
       /\ answer' = resp
       /\ IF Normalise(resp) = <<"y">>
          THEN /\ event' = IF readOk THEN "read" ELSE "read_failed"
               /\ pc' = IF readOk THEN "cont" ELSE "crashed"
          ELSE /\ event' = "prompt"
               /\ pc' = "cont"
  /\ UNCHANGED <<idx, rec, inputs, lastPrompt, lastOutcome, called, rejects,
                 vehicle_yaml, fs, vehicles, raw, result, fn>>

\* The prompt to add another vehicle.  The locals of the iteration are
\* rebound before they are read again: a new iteration starts without them.
Continue ==
  /\ pc = "cont"
  /\ \E resp \in Responses :
       /\ answer' = resp
       /\ event' = "prompt"
       /\ pc' = AfterContinue(resp)
       /\ IF AfterContinue(resp) = "collect"
          THEN /\ vehicles < MaxVehicles
               /\ vehicles' = vehicles + 1
               /\ idx' = 1
               /\ rec' = <<>>
               /\ inputs' = <<>>
               /\ vehicle_yaml' = <<>>
               /\ rejects' = 0
               /\ lastPrompt' = "none"
               /\ lastOutcome' = "none"
               /\ called' = FALSE
          ELSE UNCHANGED <<vehicles, idx, rec, inputs, vehicle_yaml, rejects,
                           lastPrompt, lastOutcome, called>>
  /\ UNCHANGED <<fs, raw, result, fn>>

Next == Prompt \/ Persist \/ Review \/ Continue

Spec == Init /\ [][Next]_vars

(***************************************************************************)
(* validate_vin and validate_entity applied on their own, to every string  *)
(* of a bounded set.                                                       *)
(***************************************************************************)
\* sequences over alphabet A of length at most n
SeqsUpTo(A, n) == UNION {[1..k -> A] : k \in 0..n}

VinAlphabet == {"a", " ", "-", "ß"}

\* a run of n digits
Body(n) == [i \in 1..n |-> "7"]

\* free characters, a run of 13 to 17 digits, free characters
VinInputs ==
  {h \o Body(n) \o t : h \in SeqsUpTo(VinAlphabet, MaxPad),
                       t \in SeqsUpTo(VinAlphabet, MaxPad),
                       n \in (VinLen - 4)..VinLen}

EntityAlphabet == {"a", "B", ".", " "}

EntityInputs == SeqsUpTo(EntityAlphabet, MaxEntityLen)

InitVin ==
  /\ InitWizard
  /\ raw \in VinInputs
  /\ result = <<>>
  /\ fn = "none"

ApplyValidateVin ==
  /\ fn = "none"
  /\ result' = validate_vin(raw)
  /\ fn' = "validate_vin"
  /\ UNCHANGED <<raw, wizardVars>>

NextVin == ApplyValidateVin

SpecVin == InitVin /\ [][NextVin]_vars

InitEntity ==
  /\ InitWizard
  /\ raw \in EntityInputs
  /\ result = <<>>
  /\ fn = "none"

ApplyValidateEntity ==
  /\ fn = "none"
  /\ result' = validate_entity(raw)
  /\ fn' = "validate_entity"
  /\ UNCHANGED <<raw, wizardVars>>

NextEntity == ApplyValidateEntity

SpecEntity == InitEntity /\ [][NextEntity]_vars

(***************************************************************************)
(* Properties.                                                             *)
(***************************************************************************)
\* a line passes the validation of its field: it is the empty line of a
\* field with a default, or the validator of the field accepts it
PassedValidation(f, line) ==
  IF line = <<>> /\ Default(f).has THEN TRUE ELSE Validator(f, line).ok

\* the document of this iteration has been built
Built == pc \in {"review", "cont", "done"} \/ event = "write_failed"

\* C1: a file write (completed or failed) happens only once every field of
\* the record has been collected in this iteration and the last line typed
\* for each field passed its validation.
C1_WriteOnlyAfterAllValid ==
  event \in {"write", "write_failed"} =>
    \A f \in {"year", "make", "model", "vin", "license_plate", "color",
              "tire_min", "tire_max", "fuel_entity", "front_left", "front_right",
              "rear_left", "rear_right", "battery_entity", "ignition_entity",
              "trouble_entity", "odometer_entity", "photo_url"} :
      /\ f \in DOMAIN rec
      /\ f \in DOMAIN inputs
      /\ PassedValidation(f, inputs[f])

\* the second vehicle of the session has just been written
C1_Witness ==
  event = "write" /\ pc = "review" /\ vehicles = 2 /\ DOMAIN fs # {}

\* C2: a step that prompts a field and reads a line its validator rejects
\* stays at the same field of the same iteration, leaves the collected
\* values, the files and the document untouched, and does not end the
\* session; this holds after any number of rejections in a row.
C2_RejectionReprompts ==
  [][ LET f == PromptOrder[idx] IN
      ( /\ pc = "collect"
        /\ event' = "prompt"
        /\ f \in DOMAIN inputs'
        /\ ~PassedValidation(f, inputs'[f]) )
      => /\ pc' = "collect"
         /\ idx' = idx
         /\ lastPrompt' = f
         /\ rejects' = rejects + 1
         /\ rec' = rec
         /\ fs' = fs
         /\ vehicles' = vehicles ]_vars

\* a second rejection in a row at a prompt that has fields before it
C2_Witness ==
  /\ pc = "collect"
  /\ lastOutcome = "retry"
  /\ rejects >= 2
  /\ idx > 1
  /\ lastPrompt = PromptOrder[idx]

\* an answer is an affirmative "y": it is y or Y between optional blanks
Affirmative(resp) == Strip(resp) \in {<<"y">>, <<"Y">>}

\* C3: the wizard enters Collecting from another state only by an
\* affirmative "y" at the continue prompt; every other answer at the
\* continue prompt ends the session; and nothing happens once it has ended.
C3_ContinueOnlyOnYes ==
  [][ /\ (pc = "cont" =>
            IF Affirmative(answer')
            THEN pc' = "collect" /\ idx' = 1 /\ vehicles' = vehicles + 1
            ELSE pc' = "done")
      /\ (pc # "collect" /\ pc' = "collect" => pc = "cont" /\ Affirmative(answer'))
      /\ (pc = "done" => UNCHANGED vars) ]_vars

\* the session ended on "yes" after a second vehicle
C3_Witness ==
  pc = "done" /\ answer = <<"y","e","s">> /\ vehicles = 2

\* C4: a failed write takes run_wizard to its end by the exception, and
\* nothing follows: no retry, no review or continue prompt, no new entry.
C4_WriteFailureIsFatal ==
  [][ /\ (pc = "persist" /\ event' = "write_failed" => pc' = "crashed")
      /\ (pc = "crashed" => UNCHANGED vars) ]_vars

\* the write of the second vehicle failed, leaving a truncated file
C4_Witness ==
  /\ pc = "crashed"
  /\ event = "write_failed"
  /\ vehicles = 2
  /\ \E n \in DOMAIN fs : ~fs[n].complete

\* the fields collected are the first k of the order, and the field last
\* prompted is the k-th (its line was returned) or the one after
PromptedInOrder(order) ==
  \E k \in 0..Len(order) :
    /\ DOMAIN rec = {order[i] : i \in 1..k}
    /\ lastPrompt # "none" =>
         \/ k >= 1 /\ lastPrompt = order[k]
         \/ k < Len(order) /\ lastPrompt = order[k + 1]

\* C5 as stated: the prompts follow the order of the data model, make,
\* model, year, ..., the five sensors, the four tire positions, photo_url.
C5_DataModelOrder ==
  PromptedInOrder(<<"make", "model", "year", "vin", "license_plate", "color",
                    "tire_min", "tire_max",
                    "fuel_entity", "battery_entity", "ignition_entity",
                    "trouble_entity", "odometer_entity",
                    "front_left", "front_right", "rear_left", "rear_right",
                    "photo_url">>)

\* C5 amended: the prompts follow the order year, make, model, vin,
\* license_plate, color, tire_min, tire_max, fuel_entity, the four tire
\* positions, battery, ignition, trouble, odometer, photo_url; a field is
\* never prompted before every field preceding it there has been collected.
C5_PromptOrder ==
  PromptedInOrder(<<"year", "make", "model", "vin", "license_plate", "color",
                    "tire_min", "tire_max",
                    "fuel_entity",
                    "front_left", "front_right", "rear_left", "rear_right",
                    "battery_entity", "ignition_entity", "trouble_entity",
                    "odometer_entity",
                    "photo_url">>)

\* battery is prompted once the four tire positions are collected
C5_Witness ==
  /\ lastPrompt = "battery_entity"
  /\ lastOutcome = "retry"
  /\ {"year", "front_left", "front_right", "rear_left", "rear_right"} \subseteq DOMAIN rec
  /\ "battery_entity" \notin DOMAIN rec

\* C6: a value returned by validate_entity holds exactly one "." and has
\* characters on both sides of it.
C6_ExactlyOneDot ==
  (fn = "validate_entity" /\ result.ok) =>
    /\ Count(".", result.value) = 1
    /\ result.value[1] # "."
    /\ result.value[Len(result.value)] # "."

\* all the characters of s are alphanumeric
AllAlnum(s) == \A i \in 1..Len(s) : IsAlnumChar(s[i])

\* C7 as stated: validate_vin fails on every input of length other than 17
\* or with a non-alphanumeric character, and on every 17-character
\* alphanumeric input it returns the input upper-cased.
C7_RawLength ==
  fn = "validate_vin" =>
    /\ (Len(raw) # 17 \/ ~AllAlnum(raw)) => ~result.ok
    /\ (Len(raw) = 17 /\ AllAlnum(raw)) => (result.ok /\ result.value = Upper(raw))

\* C7 amended: validate_vin fails exactly when the input, stripped of
\* surrounding whitespace and then upper-cased, has a length other than 17
\* or a non-alphanumeric character; otherwise it returns that stripped and
\* upper-cased string.
C7_StrippedUpperLength ==
  fn = "validate_vin" =>
    LET v == Upper(Strip(raw)) IN
    IF Len(v) = 17 /\ AllAlnum(v)
    THEN result.ok /\ result.value = v
    ELSE ~result.ok

\* an input of 18 characters, one of them a blank, is accepted
C7_Witness ==
  /\ fn = "validate_vin"
  /\ result.ok
  /\ Len(raw) = 18
  /\ raw[1] = " "

\* C8: the indicators are five, in the order fuel, front left, front right,
\* rear left, rear right; each reads the sensor bound to its position; the
\* fuel threshold is 15 and every tire threshold is tire_min.
C8_FiveIndicators ==
  Built =>
    LET ind == vehicle_yaml.indicators IN
    /\ Len(ind) = 5
    /\ ind[1].entity = rec["fuel_entity"]
    /\ ind[1].threshold = 15
    /\ ind[2].entity = rec["front_left"]
    /\ ind[3].entity = rec["front_right"]
    /\ ind[4].entity = rec["rear_left"]
    /\ ind[5].entity = rec["rear_right"]
    /\ \A i \in 2..5 : ind[i].threshold = rec["tire_min"]

\* a document built with a typed tire_min that differs from tire_max
C8_Witness ==
  /\ pc = "review"
  /\ rec["tire_min"] = Float(325)
  /\ rec["tire_max"] = Float(380)
  /\ vehicle_yaml.indicators[2].threshold = Float(325)

\* C9: a value returned for a field is the default exactly when the field
\* has a default and the line typed is empty, and then the validator is
\* not invoked; otherwise the validator is invoked on the line, accepts it,
\* and its value is the one returned.
C9_DefaultOrValidated ==
  /\ \A f \in DOMAIN rec :
       IF Default(f).has /\ inputs[f] = <<>>
       THEN rec[f] = Default(f).value
       ELSE Validator(f, inputs[f]).ok /\ rec[f] = Validator(f, inputs[f]).value
  /\ lastPrompt # "none" =>
       (called <=> ~(Default(lastPrompt).has /\ inputs[lastPrompt] = <<>>))

\* color defaulted on an empty line, tire_min typed, and a blank line at
\* tire_max went to the validator
C9_Witness ==
  /\ lastPrompt = "tire_max"
  /\ inputs["tire_max"] = <<" ">>
  /\ called
  /\ lastOutcome = "retry"
  /\ inputs["color"] = <<>>
  /\ rec["color"] = <<"B","l","u","e">>
  /\ rec["tire_min"] = Float(325)
  /\ inputs["model"] # <<>>

\* C10: the document built, and the file written, are those of any record
\* that differs from the one entered only in tire_max, ignition_entity,
\* trouble_entity and odometer_entity.
C10_IgnoredFields ==
  Built =>
    /\ \A tmax \in {Float(0), Float(380), Float(400)},
          ign \in {<<"b",".","i","g","n">>, <<"x",".","y">>},
          trb \in {<<"b",".","t">>, <<"x",".","y">>},
          odo \in {<<"s",".","k","m">>, <<"x",".","y">>} :
         generate_vehicle_yaml(rec["make"], rec["model"], rec["year"],
                               rec["license_plate"], rec["vin"], rec["color"],
                               rec["tire_min"], tmax, rec["fuel_entity"],
                               [p \in {"front_left", "front_right", "rear_left",
                                       "rear_right"} |-> rec[p]],
                               rec["battery_entity"], ign, trb, odo,
                               rec["photo_url"]) = vehicle_yaml
    /\ event = "write" => fs[BuiltFileName] = [complete |-> TRUE, doc |-> vehicle_yaml]

\* a record with typed tire_max, ignition and odometer has been written
C10_Witness ==
  /\ event = "write"
  /\ rec["tire_max"] = Float(400)
  /\ rec["ignition_entity"] = <<"b",".","o","n">>
  /\ rec["odometer_entity"] = <<"s",".","k","m">>

====
